---- MODULE Spec2Model ----
(***************************************************************************)
(* Model of src/mcmc.py: the walker (one adaptive per-coordinate          *)
(* Metropolis chain) and the MCMC controller that owns the walkers.        *)
(*                                                                         *)
(* Numbers are exact rationals <<numerator, denominator>>, denominator     *)
(* > 0, in lowest terms.  A numpy array is a record [dt, v]: its dtype     *)
(* ("int" or "float") and its values; storing into an "int" array          *)
(* truncates toward zero as numpy's item assignment does.  Arrays live in  *)
(* `arrays`, indexed by an identity, so that two walkers holding the same  *)
(* array (after move_to_best_walker) are told apart from two walkers       *)
(* holding equal arrays.  Walkers are numbered from 1 (Python: from 0).    *)
(***************************************************************************)
EXTENDS Integers, Sequences, FiniteSets, TLC

VARIABLES
    walkers,    \* MCMC.walkers: sequence of walker records
    arrays,     \* the arrays the walkers' p fields refer to, by identity
    cost,       \* MCMC.cost: the cost callable handed to every walker
    savepath,   \* MCMC.savepath: "None" or a directory
    frame,      \* the activation of MCMC.walk in progress, if any
    saved,      \* history: the saves of the latest MCMC.walk call, in order
    steps,      \* history: per walker, the number of walker.step calls made
    last        \* history: the last operation completed and what it did

vars == <<walkers, arrays, cost, savepath, frame, saved, steps, last>>

(***************************************************************************)
(* Bounds of the model.                                                    *)
(***************************************************************************)
MaxWalkers == 2     \* walkers a controller holds
MaxSteps == 2       \* walker.step calls in one behaviour of Spec
SoloSteps == 2      \* walker.step calls in one behaviour of SoloSpec
MaxRounds == 2      \* largest nsteps argument of a walk call
TuneSteps == 26     \* walker.step calls in one behaviour of TuneSpec
LongRounds == 11    \* the nsteps argument of a long MCMC.walk call
PairSteps == 3      \* walker.step calls in one behaviour of PairSpec

None == "None"

(***************************************************************************)
(* Exact rational arithmetic.                                              *)
(***************************************************************************)
Abs(x) == IF x < 0 THEN -x ELSE x

RECURSIVE GCD(_, _)
GCD(a, b) == IF b = 0 THEN a ELSE GCD(b, a % b)

Rat(n, d) == LET g == GCD(Abs(n), d) IN <<n \div g, d \div g>>

Num(k) == <<k, 1>>

RAdd(a, b) == Rat(a[1] * b[2] + b[1] * a[2], a[2] * b[2])

RSub(a, b) == Rat(a[1] * b[2] - b[1] * a[2], a[2] * b[2])

RMul(a, b) == Rat(a[1] * b[1], a[2] * b[2])

\* a / b for b # 0
RDiv(a, b) == IF b[1] > 0 THEN Rat(a[1] * b[2], a[2] * b[1])
              ELSE Rat(-(a[1] * b[2]), a[2] * (-b[1]))

RLt(a, b) == a[1] * b[2] < b[1] * a[2]

RLe(a, b) == a[1] * b[2] <= b[1] * a[2]

RAbs(a) == <<Abs(a[1]), a[2]>>

\* truncation toward zero
Trunc(a) == IF a[1] >= 0 THEN a[1] \div a[2] ELSE -((-a[1]) \div a[2])

RECURSIVE SeqSum(_)
SeqSum(s) == IF s = <<>> THEN 0 ELSE Head(s) + SeqSum(Tail(s))

RECURSIVE RSum(_)
RSum(s) == IF s = <<>> THEN Num(0) ELSE RAdd(Head(s), RSum(Tail(s)))

(***************************************************************************)
(* numpy arrays.                                                           *)
(***************************************************************************)
\* the value an array of dtype dt holds after x is stored into it
AsType(dt, x) == IF dt = "int" THEN Num(Trunc(x)) ELSE x

Arr(dt, v) == [dt |-> dt, v |-> v]

\* np.ones_like(a)
OnesLike(a) == Arr(a.dt, [i \in 1..Len(a.v) |-> Num(1)])

\* dtype of an array built from arrays of dtypes a and b (np.vstack, np.array)
Promote(a, b) == IF a = "float" \/ b = "float" THEN "float" ELSE "int"

\* np.insert(p, 0, c): c is converted to the dtype of p
Insert0(p, c) == Arr(p.dt, <<AsType(p.dt, c)>> \o p.v)

\* None, where an array and where a number is expected
NoArr == Arr("none", <<>>)

NoNum == <<>>

(***************************************************************************)
(* The cost callable.  "quad" is the default cost of walker.__init__, the  *)
(* sum of squared residuals, for model(x, p) = p and y = 0.  The others    *)
(* are caller-supplied costs: "flat" is constant, "well" is 0 at the       *)
(* origin and huge elsewhere, "ramp" falls steeply along every coordinate  *)
(* up to 1 and is huge beyond, "half" is half the default cost, "pits" is   *)
(* 0 at the origin, 500 at (3, 3) and huge elsewhere.                      *)
(***************************************************************************)
Ramp(x) == IF RLe(x, Num(1)) THEN RMul(Num(-1000), x) ELSE Num(1000000)

Cost(kind, p) ==
    CASE kind = "quad" -> RSum([i \in 1..Len(p) |-> RMul(p[i], p[i])])
      [] kind = "half" -> RDiv(RSum([i \in 1..Len(p) |-> RMul(p[i], p[i])]), Num(2))
      [] kind = "flat" -> Num(0)
      [] kind = "well" -> IF \A i \in 1..Len(p) : p[i] = Num(0)
                          THEN Num(0) ELSE Num(1000)
      [] kind = "ramp" -> RSum([i \in 1..Len(p) |-> Ramp(p[i])])
      [] kind = "pits" -> IF \A i \in 1..Len(p) : p[i] = Num(0) THEN Num(0)
                          ELSE IF \A i \in 1..Len(p) : p[i] = Num(3) THEN Num(500)
                          ELSE Num(1000000)

(***************************************************************************)
(* The random draws of walker.step.                                        *)
(***************************************************************************)
\* np.exp(t) is 0.0 for every t below about -745
ExpUnderflow == 745

\* np.random.uniform(0, 1) lies in [0, 1): its least and its greatest value
CondDraws == {"zero", "below1"}

\* np.random.normal(0, sigma): any real for sigma > 0, and 0 for sigma = 0
Deltas == {Num(-1), Num(1)}

NormalDraws(sigma) == IF sigma = Num(0) THEN {Num(0)} ELSE Deltas

\* likelihood_ratio = np.exp(-c_prosp + self.c);  likelihood_ratio > cond
\* exp(t) > 0.0 unless it underflows; exp(t) > 1 - 2^-53 iff t >= 0
Accepted(c_prosp, c, cond) ==
    LET t == RSub(c, c_prosp)
    IN  IF cond = "zero" THEN RLe(Num(-ExpUnderflow), t) ELSE RLe(Num(0), t)

\* np.random.choice(n, n, replace=False): the orders of 1..n
Orders(n) == {o \in [1..n -> 1..n] : \A i, j \in 1..n : i # j => o[i] # o[j]}

(***************************************************************************)
(* walker.  A walker record holds pref (the identity of the array its p    *)
(* field refers to), psig with sref (the identity of the array psig refers *)
(* to), c, accept_sample and runs; runs maps a run id to a table           *)
(* [dt, rows].  The operations work on a pair                              *)
(* [w |-> walker, arrays |-> arrays] and `self` is the walker's number,    *)
(* which is also the identity of an array only this walker refers to.      *)
(***************************************************************************)
N_SAMPLE == 25

\* self.p
PArr(st) == st.arrays[st.w.pref]

\* walker.move_to_p
MoveToP(self, st, p, p_cost, kind) ==
    [st EXCEPT !.arrays[self] = Arr(p.dt, p.v),
               !.w.pref = self,
               !.w.c = IF p_cost = NoNum THEN Cost(kind, p.v) ELSE p_cost]

\* p_prospective = self.p.copy(); p_prospective[i] += delta
Prospective(p, i, delta) == [p EXCEPT !.v[i] = AsType(p.dt, RAdd(@, delta))]

\* a faulty AcceptMove: the array self.p refers to is overwritten in place
AcceptMoveInPlace(self, st, i, p_prospective, c_prosp, kind) ==
    [st EXCEPT !.arrays[st.w.pref] = p_prospective,
               !.w.c = c_prosp,
               !.w.accept_sample[i] = Append(@, 1)]

\* a faulty AcceptMove: the cost of the accepted position is not cached
AcceptMoveStaleCost(self, st, i, p_prospective, c_prosp, kind) ==
    [st EXCEPT !.arrays[self] = Arr(p_prospective.dt, p_prospective.v),
               !.w.pref = self,
               !.w.accept_sample[i] = Append(@, 1)]

\* the accepted branch of walker.step
AcceptMove(self, st, i, p_prospective, c_prosp, kind) ==
    LET moved == MoveToP(self, st, p_prospective, c_prosp, kind)
    IN  [moved EXCEPT !.w.accept_sample[i] = Append(@, 1)]

\* a faulty RejectMove: the whole of p goes back to orig_p
RejectMoveAll(self, st, i, orig_p) ==
    [st EXCEPT !.w.accept_sample[i] = Append(@, 0),
               !.arrays[st.w.pref] = orig_p]

\* the rejected branch of walker.step: self.p[i] = float(orig_p[i]), in place
RejectMove(self, st, i, orig_p) ==
    [st EXCEPT !.w.accept_sample[i] = Append(@, 0),
               !.arrays[st.w.pref].v[i] = AsType(PArr(st).dt, orig_p.v[i])]

\* the new psig[i] once the window of outcomes is full
Rescaled(psig, i, window) ==
    IF SeqSum(window) > 0
    THEN AsType(psig.dt, RMul(psig.v[i],
             RDiv(RDiv(Num(SeqSum(window)), Num(Len(window))), <<1, 2>>)))
    ELSE AsType(psig.dt, RDiv(psig.v[i], Num(2)))

\* a faulty UpdatePsig: the window is let grow past n_sample
UpdatePsigLate(st, i) ==
    IF Len(st.w.accept_sample[i]) > N_SAMPLE
    THEN [st EXCEPT !.w.psig.v[i] = Rescaled(st.w.psig, i, st.w.accept_sample[i]),
                    !.w.accept_sample[i] = <<>>,
                    !.trace.full[i] = st.w.accept_sample[i]]
    ELSE st

\* "Update psig[i] value so that ~50% of steps are accepted."
UpdatePsig(st, i) ==
    IF Len(st.w.accept_sample[i]) >= N_SAMPLE
    THEN [st EXCEPT !.w.psig.v[i] = Rescaled(st.w.psig, i, st.w.accept_sample[i]),
                    !.w.accept_sample[i] = <<>>,
                    !.trace.full[i] = st.w.accept_sample[i]]
    ELSE st

\* one pass of the loop body of walker.step, for coordinate i
CoordStep(self, st, i, delta, cond, kind, orig_p) ==
    LET p_prospective == Prospective(PArr(st), i, delta)
        c_prosp == Cost(kind, p_prospective.v)
        ok == Accepted(c_prosp, st.w.c, cond)
        done == IF ok THEN AcceptMove(self, st, i, p_prospective, c_prosp, kind)
                      ELSE RejectMove(self, st, i, orig_p)
        noted == [done EXCEPT !.trace.took[i] = ok,
                              !.trace.prop[i] = p_prospective.v[i],
                              !.trace.against[i] = st.w.c,
                              !.trace.c_prosp[i] = c_prosp]
    IN  UpdatePsig(noted, i)

CoordOutcomes(self, st, i, kind, orig_p) ==
    {CoordStep(self, st, i, delta, cond, kind, orig_p) :
        delta \in NormalDraws(st.w.psig.v[i]), cond \in CondDraws}

RECURSIVE Sweep(_, _, _, _, _, _)
Sweep(self, sts, p_order, k, kind, orig_p) ==
    IF k > Len(p_order) THEN sts
    ELSE Sweep(self,
               UNION {CoordOutcomes(self, st, p_order[k], kind, orig_p) : st \in sts},
               p_order, k + 1, kind, orig_p)

\* a faulty AddRow: the row goes on top of the table
AddRowOnTop(runs, run_id, row) ==
    IF run_id \notin DOMAIN runs
    THEN [r \in DOMAIN runs \cup {run_id} |->
             IF r = run_id THEN [dt |-> row.dt, rows |-> <<row.v>>] ELSE runs[r]]
    ELSE [runs EXCEPT ![run_id] = [dt |-> Promote(@.dt, row.dt),
                                   rows |-> <<row.v>> \o @.rows]]

\* a faulty AddRow: the table is always made anew, of the one row
AddRowAnew(runs, run_id, row) ==
    [r \in DOMAIN runs \cup {run_id} |->
        IF r = run_id THEN [dt |-> row.dt, rows |-> <<row.v>>] ELSE runs[r]]

\* the run table after np.array([row]) or np.vstack((table, row))
AddRow(runs, run_id, row) ==
    IF run_id \notin DOMAIN runs
    THEN [r \in DOMAIN runs \cup {run_id} |->
             IF r = run_id THEN [dt |-> row.dt, rows |-> <<row.v>>] ELSE runs[r]]
    ELSE [runs EXCEPT ![run_id] = [dt |-> Promote(@.dt, row.dt),
                                   rows |-> Append(@.rows, row.v)]]

\* the end of walker.step: the cost is recomputed and the row recorded
Finish(st, run_id, kind) ==
    LET synced == [st EXCEPT !.w.c = Cost(kind, PArr(st).v)]
    IN  IF run_id = None THEN synced
        ELSE [synced EXCEPT !.w.runs =
                 AddRow(@, run_id, Insert0(PArr(synced), synced.w.c))]

NoTrace(n) ==
    [p_order |-> <<>>, orig_p |-> <<>>,
     took |-> [i \in 1..n |-> FALSE], prop |-> [i \in 1..n |-> Num(0)],
     against |-> [i \in 1..n |-> Num(0)], c_prosp |-> [i \in 1..n |-> Num(0)],
     full |-> [i \in 1..n |-> <<>>]]

\* walker.step: every state it can end in, with the trace of its sweep
StepOutcomes(self, w, arrs, run_id, kind) ==
    LET orig_p == arrs[w.pref]
        n == Len(orig_p.v)
    IN  UNION {
          {Finish(st, run_id, kind) :
              st \in Sweep(self,
                          {[w |-> w, arrays |-> arrs,
                            trace |-> [NoTrace(n) EXCEPT !.p_order = p_order,
                                                         !.orig_p = orig_p.v]]},
                          p_order, 1, kind, orig_p)} :
          p_order \in Orders(n)}

\* history: what `last` keeps of the trace of a sweep: the order, the outcome
\* per coordinate, the value proposed where it was accepted, and the window
\* of outcomes that rescaled psig[i], if one did
Shown(trace) ==
    [p_order |-> trace.p_order, took |-> trace.took,
     prop |-> [i \in DOMAIN trace.prop |->
                  IF trace.took[i] THEN trace.prop[i] ELSE NoNum],
     full |-> trace.full]

WalkName(n) == "walk" \o ToString(n)

\* a faulty FreeWalkName: the number of runs held, not the lowest free one
FreeWalkNameByCount(runs, n) == WalkName(Cardinality(DOMAIN runs))

RECURSIVE FreeWalkName(_, _)
FreeWalkName(runs, n) ==
    IF WalkName(n) \in DOMAIN runs THEN FreeWalkName(runs, n + 1) ELSE WalkName(n)

\* the run id walker.walk steps under
WalkRunId(runs, run_id) == IF run_id = None THEN FreeWalkName(runs, 0) ELSE run_id

Untraced(sts) == {[w |-> st.w, arrays |-> st.arrays] : st \in sts}

RECURSIVE StepTimes(_, _, _, _, _)
StepTimes(self, sts, nsteps, run_id, kind) ==
    IF nsteps <= 0 THEN sts
    ELSE StepTimes(self,
                   UNION {Untraced(StepOutcomes(self, st.w, st.arrays, run_id, kind)) :
                             st \in sts},
                   nsteps - 1, run_id, kind)

\* walker.walk: every state it can end in
WalkOutcomes(self, w, arrs, nsteps, run_id, kind) ==
    StepTimes(self, {[w |-> w, arrays |-> arrs]}, nsteps,
              WalkRunId(w.runs, run_id), kind)

\* np.mean(a, axis=0): the column means of a table; an error for anything
\* that is not at least one-dimensional
MeanAxis0(a) ==
    IF a.ndim = 0 THEN [exc |-> "AxisError", val |-> NoArr]
    ELSE [exc |-> "none",
          val |-> Arr("float",
                      [j \in 1..Len(a.rows[1]) |->
                          RDiv(RSum([k \in 1..Len(a.rows) |-> a.rows[k][j]]),
                               Num(Len(a.rows)))])]

\* what numpy makes of a run table, and of an object that is no array
Table(t) == [ndim |-> 2, dt |-> t.dt, rows |-> t.rows]

Scalar == [ndim |-> 0]

\* a faulty GetBestP: "recent" gives the first row of the run
GetBestPOldest(w, run_id, method) ==
    IF run_id \notin DOMAIN w.runs THEN [exc |-> "KeyError", val |-> NoArr]
    ELSE IF method = "mean" THEN MeanAxis0(Table(w.runs[run_id]))
    ELSE [exc |-> "none", val |-> Arr(w.runs[run_id].dt, w.runs[run_id].rows[1])]

\* walker.get_best_p
GetBestP(w, run_id, method) ==
    IF run_id \notin DOMAIN w.runs THEN [exc |-> "KeyError", val |-> NoArr]
    ELSE IF method = "mean" THEN MeanAxis0(Table(w.runs[run_id]))
    ELSE IF method = "recent"
         THEN [exc |-> "none",
               val |-> Arr(w.runs[run_id].dt,
                           w.runs[run_id].rows[Len(w.runs[run_id].rows)])]
    ELSE [exc |-> "none", val |-> NoArr]

\* walker.get_mean: np.mean(self.runs, axis=0), and self.runs is the dict
GetMean(w) == MeanAxis0(Scalar)

\* walker.__init__
NewWalker(self, arrs, p0, psig, kind) ==
    LET sig == IF psig = NoArr THEN OnesLike(p0) ELSE Arr(psig.dt, psig.v)
        blank == [pref |-> self, psig |-> sig, sref |-> self, c |-> Num(0),
                  accept_sample |-> <<>>, runs |-> <<>>]
        placed == MoveToP(self, [w |-> blank, arrays |-> arrs], p0, NoNum, kind)
    IN  [placed EXCEPT !.w.runs = [r \in {} |-> NoArr],
                       !.w.accept_sample = [a \in 1..Len(PArr(placed).v) |-> <<>>]]

(***************************************************************************)
(* MCMC, the controller.                                                   *)
(***************************************************************************)
\* an array no walker refers to any longer is gone
Collect(ws, arrs) ==
    [id \in DOMAIN arrs |->
        IF \E w \in 1..Len(ws) : ws[w].pref = id THEN arrs[id] ELSE NoArr]

RECURSIVE SumOver(_, _)
SumOver(f, S) ==
    IF S = {} THEN 0
    ELSE LET x == CHOOSE y \in S : TRUE IN f[x] + SumOver(f, S \ {x})

\* self.psig[i] *= ... and self.psig[i] /= 2.0 store into the array: every
\* walker whose psig is that array sees what walker w stored
Stored(ws, w) ==
    [v \in 1..Len(ws) |->
        IF ws[v].sref = ws[w].sref THEN [ws[v] EXCEPT !.psig = ws[w].psig]
        ELSE ws[v]]

\* history: the walker.step calls walker w has made, in all and under run id r
StepsOf(w) == SumOver(steps[w], DOMAIN steps[w])

StepsUnder(w, r) == IF r \in DOMAIN steps[w] THEN steps[w][r] ELSE 0

AllSteps == SumOver([w \in 1..Len(walkers) |-> StepsOf(w)], 1..Len(walkers))

Counted(count, r, n) ==
    [k \in DOMAIN count \cup {r} |->
        (IF k \in DOMAIN count THEN count[k] ELSE 0) + (IF k = r THEN n ELSE 0)]

Idle == [pc |-> "idle"]

\* a faulty AppendWalkers: one walker is appended, whatever n is
AppendOneWalker(st, n, p0, psig, kind) ==
    LET made == NewWalker(Len(st.ws) + 1, st.arrays, p0, psig, kind)
    IN  [ws |-> Append(st.ws, made.w), arrays |-> made.arrays]

\* the appends of the loop of MCMC.add_walkers
RECURSIVE AppendWalkers(_, _, _, _, _)
AppendWalkers(st, n, p0, psig, kind) ==
    IF n <= 0 THEN st
    ELSE LET self == Len(st.ws) + 1
             made == NewWalker(self, st.arrays, p0, psig, kind)
         IN  AppendWalkers([ws |-> Append(st.ws, made.w), arrays |-> made.arrays],
                           n - 1, p0, psig, kind)

\* MCMC.add_walkers
AddWalkers(n, p0, psig) ==
    /\ frame = Idle
    /\ Len(walkers) + n <= MaxWalkers
    /\ IF p0 = NoArr /\ walkers = <<>>
       THEN /\ last' = [op |-> "add_walkers", exc |-> "ValueError", n |-> n,
                        p0 |-> p0, psig |-> psig, before |-> Len(walkers)]
            /\ UNCHANGED <<walkers, arrays, steps>>
       ELSE LET p0used == IF p0 = NoArr
                          THEN arrays[walkers[Len(walkers)].pref] ELSE p0
                psigused == IF psig = NoArr /\ walkers # <<>>
                            THEN walkers[Len(walkers)].psig ELSE psig
                st == AppendWalkers([ws |-> walkers, arrays |-> arrays],
                                    n, p0used, psigused, cost)
            IN  /\ walkers' = st.ws
                /\ arrays' = st.arrays
                /\ steps' = steps \o [k \in 1..n |-> <<>>]
                /\ last' = [op |-> "add_walkers", exc |-> "none", n |-> n,
                            p0 |-> p0, psig |-> psig, before |-> Len(walkers)]
    /\ UNCHANGED <<cost, savepath, frame, saved>>

\* walker.step, called on walkers[w]
WalkerStep(w, run_id) ==
    /\ frame = Idle
    /\ w \in 1..Len(walkers)
    /\ \E out \in StepOutcomes(w, walkers[w], arrays, run_id, cost) :
          /\ walkers' = Stored([walkers EXCEPT ![w] = out.w], w)
          /\ arrays' = Collect(walkers', out.arrays)
          /\ last' = [op |-> "step", exc |-> "none", w |-> w, run_id |-> run_id,
                      trace |-> Shown(out.trace)]
    /\ steps' = [steps EXCEPT ![w] = Counted(@, run_id, 1)]
    /\ UNCHANGED <<cost, savepath, frame, saved>>

\* walker.walk, called on walkers[w]
WalkerWalk(w, nsteps, run_id) ==
    /\ frame = Idle
    /\ w \in 1..Len(walkers)
    /\ \E out \in WalkOutcomes(w, walkers[w], arrays, nsteps, run_id, cost) :
          /\ walkers' = Stored([walkers EXCEPT ![w] = out.w], w)
          /\ arrays' = Collect(walkers', out.arrays)
    /\ steps' = [steps EXCEPT ![w] = Counted(@, WalkRunId(walkers[w].runs, run_id), nsteps)]
    /\ last' = [op |-> "walk", exc |-> "none", w |-> w, nsteps |-> nsteps,
                run_id |-> run_id]
    /\ UNCHANGED <<cost, savepath, frame, saved>>

\* walker.get_best_p, called on walkers[w]
WalkerGetBestP(w, run_id, method) ==
    /\ frame = Idle
    /\ w \in 1..Len(walkers)
    /\ LET got == GetBestP(walkers[w], run_id, method)
       IN  last' = [op |-> "get_best_p", exc |-> got.exc, w |-> w,
                    run_id |-> run_id, method |-> method, val |-> got.val]
    /\ UNCHANGED <<walkers, arrays, cost, savepath, frame, saved, steps>>

\* np.argmin: the first index of the least value
ArgMin(costs) ==
    CHOOSE k \in 1..Len(costs) :
        /\ \A j \in 1..Len(costs) : RLe(costs[k], costs[j])
        /\ \A j \in 1..(k - 1) : ~RLe(costs[j], costs[k])

\* a faulty ParamsOf: the cost field is not dropped
ParamsOfWhole(row) == row

\* best[:, 1:] of one row
ParamsOf(row) == SubSeq(row, 2, Len(row))

\* a faulty PsigOfBest: the array of the best walker itself, not a copy
PsigOfBestItself(ws, best_wi, w) ==
    [ws[w] EXCEPT !.psig = ws[best_wi].psig, !.sref = ws[best_wi].sref]

\* self.walkers[wi].psig = self.walkers[best_wi].psig.copy()
PsigOfBest(ws, best_wi, w) ==
    [ws[w] EXCEPT !.psig = ws[best_wi].psig, !.sref = w]

\* MCMC.move_to_best_walker
MoveToBestWalker(run_id, method) ==
    /\ frame = Idle
    /\ LET got == [w \in 1..Len(walkers) |-> GetBestP(walkers[w], run_id, method)]
       IN  IF walkers = <<>>
           THEN /\ last' = [op |-> "move_to_best_walker", exc |-> "IndexError"]
                /\ UNCHANGED <<walkers, arrays>>
           ELSE IF \E w \in 1..Len(walkers) : got[w].exc # "none"
           THEN /\ last' = [op |-> "move_to_best_walker", exc |-> "KeyError"]
                /\ UNCHANGED <<walkers, arrays>>
           ELSE LET best_wi == ArgMin([w \in 1..Len(walkers) |-> got[w].val.v[1]])
                    dt == IF \E w \in 1..Len(walkers) : got[w].val.dt = "float"
                          THEN "float" ELSE "int"
                    best_p == Arr(dt, ParamsOf(got[best_wi].val.v))
                IN  /\ walkers' = [w \in 1..Len(walkers) |->
                                      [PsigOfBest(walkers, best_wi, w) EXCEPT
                                          !.pref = 0]]
                    /\ arrays' = Collect(walkers', [arrays EXCEPT ![0] = best_p])
                    /\ last' = [op |-> "move_to_best_walker", exc |-> "none",
                                run_id |-> run_id, method |-> method,
                                best_wi |-> best_wi, best |-> got[best_wi].val.v,
                                psig |-> walkers[best_wi].psig]
    /\ UNCHANGED <<cost, savepath, frame, saved, steps>>

\* MCMC.burn: walker has no method burn
Burn(nsteps) ==
    /\ frame = Idle
    /\ last' = [op |-> "burn", nsteps |-> nsteps,
                exc |-> IF walkers = <<>> THEN "none" ELSE "AttributeError",
                steps |-> steps]
    /\ UNCHANGED <<walkers, arrays, cost, savepath, frame, saved, steps>>

\* MCMC.check_convergence
CheckConvergence(tol) ==
    /\ frame = Idle
    /\ LET means == [w \in 1..Len(walkers) |-> GetMean(walkers[w])]
       IN  last' = IF walkers = <<>>
                   THEN [op |-> "check_convergence", tol |-> tol,
                         exc |-> "ValueError", val |-> FALSE]
                   ELSE IF \E w \in 1..Len(walkers) : means[w].exc # "none"
                   THEN [op |-> "check_convergence", tol |-> tol,
                         exc |-> "AxisError", val |-> FALSE]
                   ELSE LET n == Len(means[1].val.v)
                            mean == [j \in 1..n |->
                                        RDiv(RSum([w \in 1..Len(walkers) |->
                                                      means[w].val.v[j]]),
                                             Num(Len(walkers)))]
                        IN  [op |-> "check_convergence", tol |-> tol, exc |-> "none",
                             val |-> \A w \in 1..Len(walkers) : \A j \in 1..n :
                                        RLt(RAbs(RSub(means[w].val.v[j], mean[j])), tol)]
    /\ UNCHANGED <<walkers, arrays, cost, savepath, frame, saved, steps>>

\* MCMC.get_run_ids
GetRunIds == UNION {DOMAIN walkers[w].runs : w \in 1..Len(walkers)}

\* the orders a set can be listed in
Listings(S) ==
    {o \in [1..Cardinality(S) -> S] :
        \A i, j \in 1..Cardinality(S) : i # j => o[i] # o[j]}

\* the run ids save_walker_history iterates over: [run_ids] for a string,
\* self.get_run_ids() for None
SavedRunIds(run_ids) ==
    IF run_ids = None THEN Listings(GetRunIds) ELSE {<<run_ids>>}

\* MCMC.save_walker_history(run_ids=...) over the listing ids: the files
\* written, one per run id and walker, until a walker lacks the run
SaveWalkerHistory(ids) ==
    LET nw == Len(walkers)
        rid(j) == ids[((j - 1) \div nw) + 1]
        wi(j) == ((j - 1) % nw) + 1
        missing == {j \in 1..(Len(ids) * nw) : rid(j) \notin DOMAIN walkers[wi(j)].runs}
        stop == IF missing = {} THEN Len(ids) * nw + 1
                ELSE CHOOSE j \in missing : \A k \in missing : j <= k
    IN  [exc |-> IF missing = {} THEN "none" ELSE "KeyError",
         files |-> {<<rid(j), wi(j)>> : j \in 1..(stop - 1)}]

\* what self.save_walker_history(run_ids=run_ids) can do: when every walker
\* holds every run to be saved, the order of the listing makes no difference
SaveOutcomes(run_ids) ==
    LET S == IF run_ids = None THEN GetRunIds ELSE {run_ids}
    IN  IF \A w \in 1..Len(walkers) : S \subseteq DOMAIN walkers[w].runs
        THEN {[exc |-> "none", files |-> S \X (1..Len(walkers))]}
        ELSE {SaveWalkerHistory(ids) : ids \in SavedRunIds(run_ids)}

\* the walkers MCMC.walk steps: range(len(self.walkers)) for 'all'
Selected(wi) == IF wi.kind = "all" THEN [k \in 1..Len(walkers) |-> k] ELSE wi.list

\* MCMC.walk is entered
WalkCall(nsteps, wi, run_id, save) ==
    /\ frame = Idle
    /\ frame' = [pc |-> "walking", nsteps |-> nsteps, wi |-> Selected(wi),
                 run_id |-> run_id, save |-> save, n |-> 0, k |-> 1,
                 steps |-> steps, walkers |-> walkers]
    /\ saved' = <<>>
    /\ last' = [op |-> "walk_call", exc |-> "none"]
    /\ UNCHANGED <<walkers, arrays, cost, savepath, steps>>

\* self.walkers[i].walk(1, run_id=run_id) for the next i of wi
WalkTurn ==
    /\ frame.pc = "walking"
    /\ frame.n < frame.nsteps
    /\ frame.k <= Len(frame.wi)
    /\ LET w == frame.wi[frame.k]
       IN  /\ \E out \in WalkOutcomes(w, walkers[w], arrays, 1, frame.run_id, cost) :
                 /\ walkers' = Stored([walkers EXCEPT ![w] = out.w], w)
                 /\ arrays' = Collect(walkers', out.arrays)
           /\ steps' = [steps EXCEPT ![w] =
                           Counted(@, WalkRunId(walkers[w].runs, frame.run_id), 1)]
           /\ last' = [op |-> "walk_turn", exc |-> "none", w |-> w, n |-> frame.n]
    /\ frame' = [frame EXCEPT !.k = @ + 1]
    /\ UNCHANGED <<cost, savepath, saved>>

\* a faulty SaveDue: the history is saved at the end of every round
SaveDueEachRound(save, path, n) == save /\ path # None

\* if save and self.savepath != None and n%10==0
SaveDue(save, path, n) == save /\ path # None /\ n % 10 = 0

\* the end of round n: the walker history is saved when due
WalkRoundEnd ==
    /\ frame.pc = "walking"
    /\ frame.n < frame.nsteps
    /\ frame.k > Len(frame.wi)
    /\ IF SaveDue(frame.save, savepath, frame.n)
       THEN \E out \in SaveOutcomes(frame.run_id) :
                   /\ saved' = Append(saved, [n |-> frame.n, exc |-> out.exc,
                                              files |-> out.files])
                   /\ IF out.exc = "none"
                      THEN /\ frame' = [frame EXCEPT !.n = @ + 1, !.k = 1]
                           /\ last' = [op |-> "walk_round", exc |-> "none"]
                      ELSE /\ frame' = Idle
                           /\ last' = [op |-> "mcmc_walk", exc |-> out.exc,
                                       nsteps |-> frame.nsteps, wi |-> frame.wi,
                                       run_id |-> frame.run_id, save |-> frame.save,
                                       steps |-> frame.steps,
                                       walkers |-> frame.walkers]
       ELSE /\ frame' = [frame EXCEPT !.n = @ + 1, !.k = 1]
            /\ last' = [op |-> "walk_round", exc |-> "none"]
            /\ UNCHANGED saved
    /\ UNCHANGED <<walkers, arrays, cost, savepath, steps>>

\* MCMC.walk returns
WalkReturn ==
    /\ frame.pc = "walking"
    /\ frame.n >= frame.nsteps
    /\ frame' = Idle
    /\ last' = [op |-> "mcmc_walk", exc |-> "none", nsteps |-> frame.nsteps,
                wi |-> frame.wi, run_id |-> frame.run_id, save |-> frame.save,
                steps |-> frame.steps, walkers |-> frame.walkers]
    /\ UNCHANGED <<walkers, arrays, cost, savepath, saved, steps>>

(***************************************************************************)
(* The arguments the operations are called with.                           *)
(***************************************************************************)
\* p0 = [0., 0.] and p0 = [0, 0]
FloatP0 == Arr("float", <<Num(0), Num(0)>>)

IntP0 == Arr("int", <<Num(0), Num(0)>>)

\* p0 = [3., 3.]
FarP0 == Arr("float", <<Num(3), Num(3)>>)

\* psig = [2., .5] and psig = [1, 3]
FloatPsig == Arr("float", <<Num(2), <<1, 2>>>>)

IntPsig == Arr("int", <<Num(1), Num(3)>>)

Methods == {"mean", "recent"}

Tols == {<<1, 1000>>}

\* the values of MCMC.walk's wi: 'all', or some walkers listed in some order
WhichInputs ==
    {[kind |-> "all", list |-> <<>>]} \cup
    {[kind |-> "list", list |-> o] :
        o \in UNION {Listings(S) : S \in SUBSET (1..Len(walkers))}}

\* the state MCMC.__init__ leaves, for a cost among costs and a savepath
\* among paths
Constructed(costs, paths) ==
    /\ walkers = <<>>
    /\ arrays = [id \in 0..MaxWalkers |-> NoArr]
    /\ cost \in costs
    /\ savepath \in paths
    /\ frame = Idle
    /\ saved = <<>>
    /\ steps = <<>>
    /\ last = [op |-> "init", exc |-> "none"]

(***************************************************************************)
(* Spec: a controller and its walkers under the operations of MCMC and     *)
(* walker, for a few steps, with a caller-supplied cost.                   *)
(***************************************************************************)
Init == Constructed({"ramp"}, {None})

DoAddWalkers ==
    \E n \in 1..MaxWalkers, p0 \in {FloatP0, NoArr}, psig \in {FloatPsig, NoArr} :
        AddWalkers(n, p0, psig)

DoStep ==
    \E w \in 1..Len(walkers), run_id \in {"a", None} :
        AllSteps < MaxSteps /\ WalkerStep(w, run_id)

DoWalk ==
    \E w \in 1..Len(walkers), nsteps \in 1..MaxRounds, run_id \in {"a", None} :
        AllSteps + nsteps <= MaxSteps /\ WalkerWalk(w, nsteps, run_id)

DoMoveToBestWalker ==
    \E run_id \in {"a", "walk0"}, method \in Methods :
        MoveToBestWalker(run_id, method)

DoBurn == \E nsteps \in 1..MaxRounds : Burn(nsteps)

DoCheckConvergence == \E tol \in Tols : CheckConvergence(tol)

Next ==
    \/ DoAddWalkers
    \/ DoStep
    \/ DoWalk
    \/ DoMoveToBestWalker
    \/ DoBurn
    \/ DoCheckConvergence

Spec == Init /\ [][Next]_vars

(***************************************************************************)
(* SoloSpec: one walker under step and walk, with the default cost.        *)
(***************************************************************************)
SoloInit == Constructed({"quad"}, {None})

SoloAdd == walkers = <<>> /\ AddWalkers(1, FloatP0, NoArr)

SoloStep ==
    \E run_id \in {"a", "walk0", None} :
        AllSteps < SoloSteps /\ WalkerStep(1, run_id)

SoloWalk ==
    \E nsteps \in 1..SoloSteps :
        AllSteps + nsteps <= SoloSteps /\ WalkerWalk(1, nsteps, None)

SoloNext == SoloAdd \/ SoloStep \/ SoloWalk

SoloSpec == SoloInit /\ [][SoloNext]_vars

(***************************************************************************)
(* WalkSpec: MCMC.walk, one turn of one walker at a time.                  *)
(***************************************************************************)
WalkInit == Constructed({"well"}, {None, "dir"})

WalkAdd ==
    \E n \in 1..MaxWalkers, psig \in {FloatPsig, NoArr} :
        walkers = <<>> /\ AddWalkers(n, FloatP0, psig)

\* MCMC.walk is called on walkers that have not stepped yet, or the call that
\* has just ended is made again while no walker exceeds MaxRounds steps
DoWalkCall ==
    \E nsteps \in (1..MaxRounds) \cup {LongRounds}, wi \in WhichInputs,
       run_id \in {"a", None}, save \in BOOLEAN :
        /\ walkers # <<>>
        /\ \/ AllSteps = 0
           \/ /\ last.op = "mcmc_walk"
              /\ <<nsteps, Selected(wi), run_id, save>>
                    = <<last.nsteps, last.wi, last.run_id, last.save>>
              /\ \A w \in 1..Len(walkers) : StepsOf(w) + nsteps <= MaxRounds
        /\ WalkCall(nsteps, wi, run_id, save)

WalkNext ==
    \/ WalkAdd
    \/ DoWalkCall
    \/ WalkTurn
    \/ WalkRoundEnd
    \/ WalkReturn

WalkSpec == WalkInit /\ [][WalkNext]_vars

(***************************************************************************)
(* TuneSpec: one walker stepped until its windows of outcomes fill.        *)
(***************************************************************************)
TuneInit == Constructed({"flat", "well", "ramp"}, {None})

TuneAdd ==
    \E in \in {<<FloatP0, NoArr>>, <<FloatP0, IntPsig>>, <<IntP0, NoArr>>} :
        walkers = <<>> /\ AddWalkers(1, in[1], in[2])

TuneStep == AllSteps < TuneSteps /\ WalkerStep(1, None)

TuneNext == TuneAdd \/ TuneStep

TuneSpec == TuneInit /\ [][TuneNext]_vars

(***************************************************************************)
(* ShareSpec: walkers at the two pits of the cost, moved to the best one;  *)
(* the first walker is then stepped until its windows of outcomes fill.    *)
(***************************************************************************)
ShareInit == Constructed({"pits"}, {None})

ShareAdd ==
    \E p0 \in {FloatP0, FarP0}, psig \in {FloatPsig, NoArr} :
        AddWalkers(1, p0, psig)

\* a walker's first step is recorded under "a"; only the first walker steps on
ShareStep ==
    \E w \in 1..Len(walkers) :
        /\ AllSteps < TuneSteps
        /\ w = 1 \/ walkers[w].runs = <<>>
        /\ WalkerStep(w, IF walkers[w].runs = <<>> THEN "a" ELSE None)

ShareMove == \E method \in Methods : MoveToBestWalker("a", method)

ShareNext == ShareAdd \/ ShareStep \/ ShareMove

ShareSpec == ShareInit /\ [][ShareNext]_vars

(***************************************************************************)
(* RowSpec: one walker, of float or of integer parameters, under half the  *)
(* default cost; its steps are recorded under "a" and looked up.           *)
(***************************************************************************)
RowInit == Constructed({"half"}, {None})

RowAdd == \E p0 \in {FloatP0, IntP0} : walkers = <<>> /\ AddWalkers(1, p0, NoArr)

RowStep == AllSteps < SoloSteps /\ WalkerStep(1, "a")

RowGetBestP ==
    \E run_id \in {"a", "b"}, method \in Methods : WalkerGetBestP(1, run_id, method)

RowNext == RowAdd \/ RowStep \/ RowGetBestP

RowSpec == RowInit /\ [][RowNext]_vars

(***************************************************************************)
(* PairSpec: walkers that inherit from one another and are moved to the    *)
(* best walker, stepped a few times under "a".                             *)
(***************************************************************************)
PairInit == Constructed({"ramp"}, {None})

\* the first walker is given its position; the others are given it or
\* inherit the last walker's, and all inherit the widths
PairAdd ==
    \E n \in 1..MaxWalkers, p0 \in {FloatP0, NoArr} :
        (walkers = <<>> => p0 # NoArr) /\ AddWalkers(n, p0, NoArr)

PairStep ==
    \E w \in 1..Len(walkers) : AllSteps < PairSteps /\ WalkerStep(w, "a")

PairMove == \E method \in Methods : MoveToBestWalker("a", method)

PairNext == PairAdd \/ PairStep \/ PairMove

PairSpec == PairInit /\ [][PairNext]_vars

(***************************************************************************)
(* The properties.                                                         *)
(***************************************************************************)
\* the values of walker w's p, its psig and its run tables
P(w) == arrays[walkers[w].pref].v

Psig(w) == walkers[w].psig.v

Runs(w) == walkers[w].runs

Rows(w, r) == IF r \in DOMAIN Runs(w) THEN Runs(w)[r].rows ELSE <<>>

\* C1: a walker that has made K calls of step under a run id, K >= 1, holds a
\* run of that id with exactly K rows, each of width 1 + len(p); it holds no
\* run under which it has made no call.
C1_RunGrowth ==
    \A w \in 1..Len(walkers) :
        /\ \A r \in DOMAIN Runs(w) : r # None /\ StepsUnder(w, r) >= 1
        /\ \A r \in DOMAIN steps[w] \ {None} :
              /\ r \in DOMAIN Runs(w)
              /\ Len(Rows(w, r)) = StepsUnder(w, r)
              /\ \A k \in 1..Len(Rows(w, r)) : Len(Rows(w, r)[k]) = 1 + Len(P(w))

\* a second call of step under the same run id has been made
C1_Witness ==
    /\ last.op = "step"
    /\ last.run_id = "a"
    /\ StepsUnder(1, "a") = 2
    /\ Len(Rows(1, "a")) = 2

\* history: the steps walker w has taken since the MCMC.walk call in
\* progress, or the last one (whose record is rec), was entered
Before(rec, w) == SumOver(rec.steps[w], DOMAIN rec.steps[w])

InList(wi, w) == \E k \in 1..Len(wi) : wi[k] = w

Place(wi, w) == CHOOSE k \in 1..Len(wi) : wi[k] = w

\* C2: all through a call of MCMC.walk a selected walker has taken as many
\* steps as rounds are over, and one more once its turn in the round under
\* way is over, so any two selected walkers are at most one step apart; an
\* unselected walker has taken none; when the call is over every selected
\* walker has taken nsteps steps and every unselected one none, whichever
\* walkers are selected and whether or not the history is saved.
C2_RoundRobin ==
    /\ frame.pc = "walking" =>
          \A w \in 1..Len(walkers) :
              StepsOf(w) - Before(frame, w) =
                  IF ~InList(frame.wi, w) THEN 0
                  ELSE IF Place(frame.wi, w) < frame.k THEN frame.n + 1
                  ELSE frame.n
    /\ last.op = "mcmc_walk" =>
          \A w \in 1..Len(walkers) :
              StepsOf(w) - Before(last, w) =
                  IF InList(last.wi, w) THEN last.nsteps ELSE 0

\* history: the rows walker w has gained in run r since the last MCMC.walk
\* call, whose record is `last`, was entered
Gained(w, r) ==
    Len(Rows(w, r)) -
        (IF r \in DOMAIN last.walkers[w].runs
         THEN Len(last.walkers[w].runs[r].rows) ELSE 0)

\* C3: when a call of MCMC.walk returns, every selected walker has gained
\* nsteps rows, all of them in one run.
C3_CommonRun ==
    (last.op = "mcmc_walk" /\ last.exc = "none") =>
        \A w \in 1..Len(walkers) :
            InList(last.wi, w) =>
                \E r \in DOMAIN Runs(w) :
                    /\ Gained(w, r) = last.nsteps
                    /\ \A q \in DOMAIN Runs(w) \ {r} : Gained(w, q) = 0

\* the lowest N >= 0 for which "walk" + N is no run id of runs
LowestFree(runs) ==
    LET N == CHOOSE n \in 0..Cardinality(DOMAIN runs) :
                 /\ WalkName(n) \notin DOMAIN runs
                 /\ \A m \in 0..(n - 1) : WalkName(m) \in DOMAIN runs
    IN  WalkName(N)

\* C4: a call walk(nsteps) of a walker, with no run id, adds one run, named
\* by the lowest N for which "walk" + N was not yet a run id, with nsteps
\* rows, and leaves every run the walker held as it was.
C4_AutoName ==
    [][(last'.op = "walk" /\ last'.run_id = None) =>
          LET w == last'.w
              new == LowestFree(walkers[w].runs)
          IN  /\ DOMAIN walkers'[w].runs = DOMAIN walkers[w].runs \cup {new}
              /\ new \notin DOMAIN walkers[w].runs
              /\ Len(walkers'[w].runs[new].rows) = last'.nsteps
              /\ \A r \in DOMAIN walkers[w].runs :
                    walkers'[w].runs[r] = walkers[w].runs[r]
              /\ (walkers[w].runs = <<>> => new = "walk0")
              /\ (DOMAIN walkers[w].runs = {"walk0"} => new = "walk1")]_vars

\* a call of walk with no run id has made "walk1", "walk0" being taken
C4_Witness ==
    /\ last.op = "walk"
    /\ last.run_id = None
    /\ DOMAIN Runs(1) = {"walk0", "walk1"}
    /\ Len(Rows(1, "walk1")) = last.nsteps

\* C5: a call of step leaves a coordinate whose proposal was rejected at the
\* value it had when the call began, and a coordinate whose proposal was
\* accepted at the value proposed for it.
C5_Rollback ==
    [][last'.op = "step" =>
          \A i \in 1..Len(P(last'.w)) :
              IF last'.trace.took[i]
              THEN arrays'[walkers'[last'.w].pref].v[i] = last'.trace.prop[i]
              ELSE arrays'[walkers'[last'.w].pref].v[i] = P(last'.w)[i]]_vars

\* a step accepted the coordinate it took first and rejected the second
C5_Witness ==
    /\ last.op = "step"
    /\ last.trace.took[last.trace.p_order[1]]
    /\ ~last.trace.took[last.trace.p_order[2]]
    /\ P(last.w)[last.trace.p_order[1]] # Num(0)

\* the outcome of coordinate i in the sweep `last` records, as the window
\* holds it
Outcome(i) == IF last.trace.took[i] THEN 1 ELSE 0

\* C6: a call of step changes psig[i] exactly when it records the 25th
\* outcome of coordinate i: psig[i] is then multiplied by
\* (accepts / 25) / 0.5 if any outcome was an accept and halved otherwise,
\* and the window is cleared; otherwise the outcome joins the window.
C6_Rescale ==
    [][last'.op = "step" =>
          \A i \in 1..Len(Psig(last'.w)) :
              LET w == last'.w
                  window == Append(walkers[w].accept_sample[i], Outcome(i)')
              IN  IF Len(window) = 25
                  THEN /\ walkers'[w].accept_sample[i] = <<>>
                       /\ walkers'[w].psig.v[i] =
                             IF SeqSum(window) > 0
                             THEN RMul(Psig(w)[i], RDiv(<<SeqSum(window), 25>>, <<1, 2>>))
                             ELSE RDiv(Psig(w)[i], Num(2))
                  ELSE /\ walkers'[w].accept_sample[i] = window
                       /\ walkers'[w].psig.v[i] = Psig(w)[i]]_vars

\* C7: every proposal width of every walker is strictly positive.
C7_PsigPositive ==
    \A w \in 1..Len(walkers) :
        \A i \in 1..Len(Psig(w)) : RLt(Num(0), Psig(w)[i])

\* C8: every walker has as many proposal widths and as many windows of
\* outcomes as it has parameters.
C8_Dimensions ==
    \A w \in 1..Len(walkers) :
        /\ Len(P(w)) = Len(Psig(w))
        /\ Len(Psig(w)) = Len(walkers[w].accept_sample)

\* two walkers have been moved to the best walker, one of them having
\* inherited its position and its widths
C8_Witness ==
    /\ last.op = "move_to_best_walker"
    /\ last.exc = "none"
    /\ Len(walkers) = 2
    /\ \A w \in 1..2 : Len(P(w)) = 2 /\ walkers[w].pref = 0

\* C9: a call burn(nsteps) of the controller returns, having advanced every
\* walker by nsteps steps.
C9_BurnAdvances ==
    last.op = "burn" =>
        /\ last.exc = "none"
        /\ \A w \in 1..Len(walkers) :
              StepsOf(w) = Before(last, w) + last.nsteps

\* all the rows of all the runs of walker w
RECURSIVE RowsOf(_, _)
RowsOf(w, S) ==
    IF S = {} THEN <<>>
    ELSE LET r == CHOOSE q \in S : TRUE IN Rows(w, r) \o RowsOf(w, S \ {r})

\* the mean of parameter j over the rows walker w has recorded
WalkerMean(w, j) ==
    LET rows == RowsOf(w, DOMAIN Runs(w))
    IN  RDiv(RSum([k \in 1..Len(rows) |-> rows[k][j + 1]]), Num(Len(rows)))

GrandMean(j) ==
    RDiv(RSum([w \in 1..Len(walkers) |-> WalkerMean(w, j)]), Num(Len(walkers)))

\* C10: on walkers that all hold recorded runs, check_convergence(tol)
\* returns whether every walker's mean of every parameter lies less than tol
\* from the mean of the walkers' means.
C10_Convergence ==
    (/\ last.op = "check_convergence"
     /\ walkers # <<>>
     /\ \A w \in 1..Len(walkers) : Runs(w) # <<>>) =>
        /\ last.exc = "none"
        /\ last.val = \A w \in 1..Len(walkers) : \A j \in 1..Len(P(w)) :
                         RLt(RAbs(RSub(WalkerMean(w, j), GrandMean(j))), last.tol)

\* the record get_best_p gives for walker w, before the call `last` records
BestRecord(w) == GetBestP(walkers[w], last'.run_id, last'.method).val.v

\* C11: move_to_best_walker chooses a walker whose get_best_p record has the
\* least cost field; afterwards every walker's p is the parameter fields of
\* that record and every walker's psig is the chosen walker's psig of before
\* the call; each walker holds its own copy: a step of one walker, whether or
\* not it rescales psig, changes no other walker's psig.
C11_MoveToBest ==
    [][/\ (last'.op = "move_to_best_walker" /\ last'.exc = "none") =>
             LET b == last'.best_wi
             IN  /\ \A j \in 1..Len(walkers) :
                       RLe(BestRecord(b)[1], BestRecord(j)[1])
                 /\ \A w \in 1..Len(walkers) :
                       /\ Len(P(w)') = Len(BestRecord(b)) - 1
                       /\ \A i \in 1..Len(P(w)') : P(w)'[i] = BestRecord(b)[i + 1]
                       /\ Psig(w)' = Psig(b)
       /\ last'.op = "step" =>
             \A v \in 1..Len(walkers) :
                 v # last'.w => walkers'[v].psig = walkers[v].psig]_vars

\* after a move to the best walker, which was the second, the first walker has
\* rescaled its psig and the second still has the psig it had
C11_Witness ==
    /\ last.op = "step"
    /\ last.w = 1
    /\ last.trace.full[1] # <<>>
    /\ Len(walkers) = 2
    /\ walkers[2].pref = 0
    /\ P(2) = <<Num(0), Num(0)>>
    /\ Psig(1) # Psig(2)

Due(r) == (r + 9) \div 10

\* C13: all through a call of MCMC.walk and after it, the history has been
\* saved only if save was asked for and a savepath is set; then it has been
\* saved once for each of the rounds 0, 10, 20, ... that are over and not
\* yet for the round under way, so each save comes after every selected
\* walker's step of its round and before any step of the next round; the
\* files written for a given run id are files of that run.
C13_SaveTiming ==
    LET call == IF frame.pc = "walking" THEN frame ELSE last
    IN  (frame.pc = "walking" \/ last.op = "mcmc_walk") =>
           /\ ~(call.save /\ savepath # None) => saved = <<>>
           /\ \A k \in 1..Len(saved) :
                 /\ saved[k].n = 10 * (k - 1)
                 /\ saved[k].n < call.nsteps
                 /\ call.run_id # None =>
                       \A f \in saved[k].files : f[1] = call.run_id
                 /\ k < Len(saved) => saved[k].exc = "none"
           /\ (frame.pc = "walking" /\ call.save /\ savepath # None) =>
                 Len(saved) = Due(frame.n)
           /\ (frame.pc # "walking" /\ call.save /\ savepath # None) =>
                 IF last.exc = "none" THEN Len(saved) = Due(last.nsteps)
                 ELSE saved[Len(saved)].exc = last.exc

\* a call of eleven rounds on two walkers has saved the history a second
\* time, at the end of round 10
C13_Witness ==
    /\ frame.pc = "walking"
    /\ Len(frame.wi) = 2
    /\ frame.n = LongRounds
    /\ Len(saved) = 2
    /\ saved[2].n = 10
    /\ saved[2].exc = "none"

\* C14: get_best_p(run_id, method) fails with KeyError when the walker holds
\* no run run_id; with method "recent" on a run it holds it returns the row
\* the walker's latest step under run_id appended; it never changes p, psig,
\* c, the windows of outcomes or the runs.
C14_GetBestP ==
    [][last'.op = "get_best_p" =>
          LET w == last'.w
              r == last'.run_id
          IN  /\ walkers' = walkers
              /\ arrays' = arrays
              /\ r \notin DOMAIN Runs(w) => last'.exc = "KeyError"
              /\ (r \in DOMAIN Runs(w) /\ last'.method = "recent") =>
                    /\ last'.exc = "none"
                    /\ Len(Rows(w, r)) = StepsUnder(w, r)
                    /\ last'.val.v = Rows(w, r)[StepsUnder(w, r)]]_vars

\* the latest of two rows that differ was looked up
C14_Witness ==
    /\ last.op = "get_best_p"
    /\ last.method = "recent"
    /\ last.exc = "none"
    /\ Len(Rows(1, "a")) = 2
    /\ Rows(1, "a")[1] # Rows(1, "a")[2]
    /\ last.val.v = Rows(1, "a")[2]

\* C15: after every completed operation each walker's cached cost c is the
\* cost of the position p the walker holds.
C15_CachedCost ==
    \A w \in 1..Len(walkers) : walkers[w].c = Cost(cost, P(w))

\* C16: a step of one walker leaves p, psig, c, the windows of outcomes and
\* the runs of every other walker as they were.
C16_Isolation ==
    [][last'.op = "step" =>
          \A j \in 1..Len(walkers) :
              j # last'.w =>
                 /\ walkers'[j].psig = walkers[j].psig
                 /\ walkers'[j].c = walkers[j].c
                 /\ walkers'[j].accept_sample = walkers[j].accept_sample
                 /\ walkers'[j].runs = walkers[j].runs
                 /\ P(j)' = P(j)]_vars

\* two walkers were moved to the best walker and the first has then stepped
\* away, the second still at the position the move gave it
C16_Witness ==
    /\ last.op = "step"
    /\ last.w = 1
    /\ \E i \in 1..2 : last.trace.took[i]
    /\ Len(walkers) = 2
    /\ walkers[2].pref = 0
    /\ walkers[1].pref = 1
    /\ P(1) # P(2)

\* the rows of table t are the first rows of table u
Extends(u, t) ==
    /\ Len(u.rows) >= Len(t.rows)
    /\ SubSeq(u.rows, 1, Len(t.rows)) = t.rows

\* C17: no operation removes a run or removes or alters a row of a run: a
\* run's rows stay the first rows of its table; step(run_id) leaves every
\* other run as it was and adds one row to run_id; step with no run id and
\* move_to_best_walker leave the runs as they were.
C17_AppendOnly ==
    [][\A w \in 1..Len(walkers) :
          /\ \A r \in DOMAIN walkers[w].runs :
                /\ r \in DOMAIN walkers'[w].runs
                /\ Extends(walkers'[w].runs[r], walkers[w].runs[r])
          /\ (last'.op = "step" /\ last'.w = w /\ last'.run_id # None) =>
                /\ DOMAIN walkers'[w].runs = DOMAIN walkers[w].runs \cup {last'.run_id}
                /\ \A r \in DOMAIN walkers[w].runs \ {last'.run_id} :
                      walkers'[w].runs[r] = walkers[w].runs[r]
                /\ Len(walkers'[w].runs[last'.run_id].rows) =
                      Len(Rows(w, last'.run_id)) + 1
          /\ (last'.op = "step" /\ last'.w = w /\ last'.run_id = None) =>
                walkers'[w].runs = walkers[w].runs
          /\ last'.op = "move_to_best_walker" =>
                walkers'[w].runs = walkers[w].runs]_vars

\* a step has added a second row, unlike the first, to a run
C17_Witness ==
    /\ last.op = "step"
    /\ last.run_id = "a"
    /\ Len(Rows(last.w, "a")) = 2
    /\ Rows(last.w, "a")[1] # Rows(last.w, "a")[2]

\* between steps every window of walker w holds 0/1 outcomes, as many as the
\* steps the walker has taken since its creation, modulo 25
WindowsInStep(w) ==
    \A i \in 1..Len(walkers[w].accept_sample) :
        /\ Len(walkers[w].accept_sample[i]) = StepsOf(w) % 25
        /\ \A k \in 1..Len(walkers[w].accept_sample[i]) :
              walkers[w].accept_sample[i][k] \in {0, 1}

\* C18: a step visits every parameter index exactly once and adds one 0/1
\* outcome to its window, so between steps all windows of a walker have the
\* same length, the number of steps taken modulo 25, which is below 25; the
\* widths are rescaled for all parameters in the same step, the 25th, 50th,
\* ... of the walker, from a window of 25 outcomes, and in no other step.
C18_Windows ==
    [][/\ \A w \in 1..Len(walkers') : WindowsInStep(w)'
       /\ \A w \in 1..Len(walkers) :
             (last'.op = "step" /\ last'.w = w) =>
             LET n == Len(walkers[w].accept_sample)
             IN  /\ Len(last'.trace.p_order) = n
                 /\ \A i \in 1..n : \E k \in 1..n : last'.trace.p_order[k] = i
                 /\ \A i \in 1..n :
                       IF StepsOf(w)' % 25 = 0
                       THEN /\ Len(last'.trace.full[i]) = 25
                            /\ SubSeq(last'.trace.full[i], 1, 24) =
                                  walkers[w].accept_sample[i]
                       ELSE /\ last'.trace.full[i] = <<>>
                            /\ walkers'[w].psig.v[i] = walkers[w].psig.v[i]
                            /\ SubSeq(walkers'[w].accept_sample[i], 1,
                                      StepsOf(w) % 25) = walkers[w].accept_sample[i]]_vars

\* the 25th step of a walker has rescaled both widths and emptied the windows
C18_Witness ==
    /\ last.op = "step"
    /\ StepsOf(1) = 25
    /\ \A i \in 1..2 : Len(last.trace.full[i]) = 25
    /\ \A i \in 1..2 : walkers[1].accept_sample[i] = <<>>
    /\ Psig(1)[1] # Psig(1)[2]

\* C19: every row [c, p_1, ..., p_k] of every run has c = cost(p_1, ..., p_k).
C19_RowCost ==
    \A w \in 1..Len(walkers) :
        \A r \in DOMAIN Runs(w) :
            \A k \in 1..Len(Rows(w, r)) :
                Rows(w, r)[k][1] =
                    Cost(cost, SubSeq(Rows(w, r)[k], 2, Len(Rows(w, r)[k])))

\* the sweep of trace t obeys the acceptance rule, starting from cached cost c:
\* each coordinate is compared against the cost cached at the last accepted
\* move, which is c or the cost of the latest proposal accepted earlier in the
\* sweep; its proposal, of cost c', is accepted if c' <= c, is rejected if
\* exp(-(c' - c)) is 0.0, and else is accepted or not as u falls
Metropolis(t, c) ==
    \A k \in 1..Len(t.p_order) :
        LET i == t.p_order[k]
            taken == {j \in 1..(k - 1) : t.took[t.p_order[j]]}
            cached == IF taken = {} THEN c
                      ELSE t.c_prosp[t.p_order[CHOOSE j \in taken :
                                                  \A m \in taken : m <= j]]
        IN  /\ t.against[i] = cached
            /\ RLe(t.c_prosp[i], cached) => t.took[i]
            /\ RLt(Num(ExpUnderflow), RSub(t.c_prosp[i], cached)) => ~t.took[i]

\* C20: in every step a walker can take, each coordinate's proposal is
\* accepted iff exp(-(c' - c)) > u for its u in [0, 1), c being the cost
\* cached at the last accepted move: a proposal of cost c' <= c is always
\* accepted, both outcomes occur for some c' > c, and after an acceptance the
\* next coordinate is compared against c'.
C20_Metropolis ==
    \A w \in 1..Len(walkers) :
        LET outs == StepOutcomes(w, walkers[w], arrays, None, cost)
        IN  /\ \A out \in outs : Metropolis(out.trace, walkers[w].c)
            /\ \A out \in outs : \A i \in 1..Len(out.trace.took) :
                  (/\ RLt(out.trace.against[i], out.trace.c_prosp[i])
                   /\ RLe(RSub(out.trace.c_prosp[i], out.trace.against[i]),
                          Num(ExpUnderflow))) =>
                     \E alt \in outs :
                        /\ alt.trace.p_order = out.trace.p_order
                        /\ alt.trace.against[i] = out.trace.against[i]
                        /\ alt.trace.c_prosp[i] = out.trace.c_prosp[i]
                        /\ alt.trace.took[i] # out.trace.took[i]

\* a step has accepted the coordinate it took first and then the second
C20_Witness ==
    /\ last.op = "step"
    /\ \A i \in 1..2 : last.trace.took[i]
    /\ P(last.w)[1] # Num(0)
    /\ P(last.w)[2] # Num(0)
    /\ StepsOf(last.w) < SoloSteps

====
